---- MODULE Spec2Model ----
(***************************************************************************)
(* A model of fetch_data.py: the GitHubAnalytics class (fetch layer,       *)
(* reducers, composer) and main.                                           *)
(*                                                                         *)
(* Python values are modelled as follows.                                  *)
(*   list            a sequence                                            *)
(*   dict            a sequence of <<key, value>> pairs in insertion order *)
(*   None            the record Null; a float or int x is Num(n, d), the   *)
(*                   exact rational n / d                                  *)
(*   a raise         the record Raise(e) in place of the returned value    *)
(*   a timestamp     the text of a created_at field, as the record of the  *)
(*                   numbers written in it and whether the text has the    *)
(*                   shape %Y-%m-%dT%H:%M:%SZ                              *)
(***************************************************************************)
EXTENDS Integers, Sequences, FiniteSets, TLC

VARIABLES
    pc,         \* position of the single thread of control
    entry,      \* the call that started the run: main or a method called directly
    requests,   \* every HTTP request issued so far, in order, with its response
    user_info,  \* generate_analytics: the profile, or Null
    repos,      \* fetch_repos: the accumulated list (then generate_analytics' repos)
    events,     \* fetch_events: the accumulated list (then generate_analytics' events)
    page,       \* the page index of the running pagination loop
    pages,      \* fetch_events: its pages argument
    months,     \* analyze_monthly_commits: its months argument
    ret,        \* the value the last finished call returned, or Raise(e)
    saved       \* the sink: the documents save_to_file has written, in order

vars == <<pc, entry, requests, user_info, repos, events, page, pages, months, ret, saved>>

----------------------------------------------------------------------------
(* Bounds of the model *)

\* pages of repositories the remote holds at most (page MaxRepoPages + 1 is empty or fails)
MaxRepoPages == 2
\* largest pages argument of a direct fetch_events call
MaxPagesArg == 4
\* longest event collection handed to a reducer
MaxEvents == 3
\* longest repository collection handed to get_repo_stats
MaxRepos == 6

(* Program constants *)

\* generate_analytics: self.fetch_events(pages=3)
EventPages == 3
\* analyze_monthly_commits(self, events, months=12)
DefaultMonths == 12
\* get_repo_stats: [:5]
TopN == 5
\* response.status_code == 200
StatusOK == 200

----------------------------------------------------------------------------
(* Python values *)

Null == [kind |-> "None"]
Num(n, d) == [kind |-> "num", n |-> n, d |-> d]
Raise(e) == [kind |-> "raise", exc |-> e]
Returned(v) == [kind |-> "value", val |-> v]
NotCalled == [kind |-> "not called"]

IsRaise(r) == r.kind = "raise"

Min(a, b) == IF a <= b THEN a ELSE b

RECURSIVE Concat(_)
Concat(ss) == IF ss = <<>> THEN <<>> ELSE Head(ss) \o Concat(Tail(ss))

\* sequences over S of length at most n
SeqUpTo(S, n) == UNION {[1..k -> S] : k \in 0..n}

(* dict *)

DictKeys(d) == {d[i][1] : i \in 1..Len(d)}

DictHas(d, k) == k \in DictKeys(d)

\* defaultdict(int): d[k] += n
DictAdd(d, k, n) ==
    IF DictHas(d, k)
    THEN [i \in 1..Len(d) |-> IF d[i][1] = k THEN <<k, d[i][2] + n>> ELSE d[i]]
    ELSE Append(d, <<k, n>>)

\* d.setdefault(k, v)
DictSetDefault(d, k, v) == IF DictHas(d, k) THEN d ELSE Append(d, <<k, v>>)

DictValues(d) == [i \in 1..Len(d) |-> d[i][2]]

----------------------------------------------------------------------------
(* datetime *)

IsLeap(y) == (y % 4 = 0 /\ y % 100 # 0) \/ y % 400 = 0

DaysInMonth(y, m) ==
    IF m = 2 THEN (IF IsLeap(y) THEN 29 ELSE 28)
    ELSE IF m \in {4, 6, 9, 11} THEN 30 ELSE 31

\* days from 1970-01-01 to y-m-d (proleptic Gregorian calendar)
DaysFromCivil(y, m, d) ==
    LET yy  == IF m <= 2 THEN y - 1 ELSE y
        era == yy \div 400
        yoe == yy - era * 400
        mp  == (m + 9) % 12
        doy == (153 * mp + 2) \div 5 + d - 1
        doe == yoe * 365 + yoe \div 4 - yoe \div 100 + doy
    IN  era * 146097 + doe - 719468

\* the date n days after 1970-01-01
CivilFromDays(n) ==
    LET z   == n + 719468
        era == z \div 146097
        doe == z - era * 146097
        yoe == (doe - doe \div 1460 + doe \div 36524 - doe \div 146096) \div 365
        doy == doe - (365 * yoe + yoe \div 4 - yoe \div 100)
        mp  == (5 * doy + 2) \div 153
        d   == doy - (153 * mp + 2) \div 5 + 1
        m   == IF mp < 10 THEN mp + 3 ELSE mp - 9
        y   == yoe + era * 400 + (IF m <= 2 THEN 1 ELSE 0)
    IN  [Y |-> y, M |-> m, D |-> d]

\* the text of a timestamp field
Stamp(y, m, d, h, mi, s) ==
    [shape |-> TRUE, Y |-> y, M |-> m, D |-> d, h |-> h, mi |-> mi, s |-> s]

\* a text that is not of the shape %Y-%m-%dT%H:%M:%SZ
Garbled == [shape |-> FALSE, Y |-> 0, M |-> 0, D |-> 0, h |-> 0, mi |-> 0, s |-> 0]

\* datetime.strptime(text, '%Y-%m-%dT%H:%M:%SZ'): a datetime, or ValueError
strptime(t) ==
    IF /\ t.shape
       /\ t.Y \in 1..9999
       /\ t.M \in 1..12
       /\ t.D \in 1..DaysInMonth(t.Y, t.M)
       /\ t.h \in 0..23
       /\ t.mi \in 0..59
       /\ t.s \in 0..59
    THEN Returned([Y |-> t.Y, M |-> t.M, D |-> t.D, h |-> t.h, mi |-> t.mi, s |-> t.s])
    ELSE Raise("ValueError")

Parses(t) == ~IsRaise(strptime(t))

WeekdayNames ==
    <<"Thursday", "Friday", "Saturday", "Sunday", "Monday", "Tuesday", "Wednesday">>

\* dt.strftime('%A')
strftimeA(dt) == WeekdayNames[(DaysFromCivil(dt.Y, dt.M, dt.D) % 7) + 1]

\* dt.strftime('%Y-%m'): the key "YYYY-MM", as the pair of its two numbers
strftimeYm(dt) == <<dt.Y, dt.M>>

ValidYearMonthKey(k) == k[1] \in 1..9999 /\ k[2] \in 1..12

\* (a - b).total_seconds()
TotalSeconds(a, b) ==
    (DaysFromCivil(a.Y, a.M, a.D) - DaysFromCivil(b.Y, b.M, b.D)) * 86400
    + (a.h - b.h) * 3600 + (a.mi - b.mi) * 60 + (a.s - b.s)

\* (dt.replace(day=1) - timedelta(days=n)).strftime('%Y-%m')
MonthOfFirstMinusDays(dt, n) ==
    LET c == CivilFromDays(DaysFromCivil(dt.Y, dt.M, 1) - n) IN <<c.Y, c.M>>

\* "YYYY-MM" keys compare as the pairs of their numbers
KeyLess(a, b) == a[1] < b[1] \/ (a[1] = b[1] /\ a[2] < b[2])

\* dict(sorted(d.items())) for a dict keyed by "YYYY-MM"
RECURSIVE SortedItems(_)
SortedItems(d) ==
    IF d = <<>> THEN <<>>
    ELSE LET i == CHOOSE j \in 1..Len(d) : \A l \in 1..Len(d) : ~KeyLess(d[l][1], d[j][1])
         IN  <<d[i]>> \o SortedItems([l \in 1..(Len(d) - 1) |-> IF l < i THEN d[l] ELSE d[l + 1]])

----------------------------------------------------------------------------
(* The names bound in the module's namespace: the imports, the class, main *)

ModuleNames == {"requests", "json", "datetime", "defaultdict", "os", "GitHubAnalytics", "main"}

----------------------------------------------------------------------------
(* Events, as the API returns them *)

NoPR == [present |-> FALSE, merged |-> FALSE, created_at |-> Garbled, closed_at |-> Garbled]

PullRequest(merged, created, closed) ==
    [present |-> TRUE, merged |-> merged, created_at |-> created, closed_at |-> closed]

\* commits: the length of payload.commits ([] when absent); action: payload.action
Event(type, created, commits, action, pr) ==
    [type |-> type, created_at |-> created, commits |-> commits, action |-> action, pr |-> pr]

T_Jan15 == Stamp(2024, 1, 15, 10, 0, 0)
T_Jan01 == Stamp(2024, 1, 1, 0, 0, 0)
T_Jan02 == Stamp(2024, 1, 2, 12, 0, 0)
T_Dec31 == Stamp(2023, 12, 31, 23, 30, 0)
T_Feb30 == Stamp(2024, 2, 30, 0, 0, 0)

PushEvents ==
    { Event("PushEvent", T_Jan15, 3, "none", NoPR),
      Event("PushEvent", T_Dec31, 0, "none", NoPR),
      Event("PushEvent", Garbled, 1, "none", NoPR),
      Event("PushEvent", T_Feb30, 2, "none", NoPR) }

PullRequestEvents ==
    { Event("PullRequestEvent", T_Jan02, 0, "closed", PullRequest(TRUE, T_Jan01, T_Jan02)),
      Event("PullRequestEvent", T_Jan02, 0, "closed", PullRequest(TRUE, T_Jan01, T_Jan01)),
      Event("PullRequestEvent", T_Jan02, 0, "closed", PullRequest(TRUE, T_Jan02, T_Jan01)),
      Event("PullRequestEvent", T_Jan15, 0, "closed", PullRequest(TRUE, Garbled, T_Jan02)),
      Event("PullRequestEvent", T_Jan15, 0, "closed", PullRequest(FALSE, T_Jan01, T_Jan02)),
      Event("PullRequestEvent", T_Jan01, 0, "opened", PullRequest(TRUE, T_Jan01, T_Jan02)),
      Event("PullRequestEvent", T_Jan01, 0, "opened", NoPR) }

OtherEvents == { Event("WatchEvent", T_Jan15, 0, "started", NoPR) }

EventUniverse == PushEvents \cup PullRequestEvents \cup OtherEvents

\* the current dates a run may see
Nows == { Stamp(2024, 3, 31, 8, 0, 0), Stamp(2024, 1, 15, 12, 0, 0) }

----------------------------------------------------------------------------
(* Reducers over events *)

RECURSIVE CommitTimesLoop(_, _, _)
CommitTimesLoop(evs, commit_hours, commit_days) ==
    IF evs = <<>> THEN Returned([commit_hours |-> commit_hours, commit_days |-> commit_days])
    ELSE LET event == Head(evs) IN
         IF event.type = "PushEvent"
         THEN LET created_at == strptime(event.created_at) IN
              IF IsRaise(created_at) THEN created_at
              ELSE CommitTimesLoop(Tail(evs),
                                   DictAdd(commit_hours, created_at.val.h, 1),
                                   DictAdd(commit_days, strftimeA(created_at.val), 1))
         ELSE CommitTimesLoop(Tail(evs), commit_hours, commit_days)

analyze_commit_times(evs) == CommitTimesLoop(evs, <<>>, <<>>)

RECURSIVE ActivityTypesLoop(_, _)
ActivityTypesLoop(evs, activity_types) ==
    IF evs = <<>> THEN activity_types
    ELSE ActivityTypesLoop(Tail(evs), DictAdd(activity_types, Head(evs).type, 1))

analyze_activity_types(evs) == Returned(ActivityTypesLoop(evs, <<>>))

\* the first loop of analyze_monthly_commits: the counts, or the ValueError of strptime
RECURSIVE MonthlyCountsLoop(_, _)
MonthlyCountsLoop(evs, counts) ==
    IF evs = <<>> THEN Returned(counts)
    ELSE LET event == Head(evs) IN
         IF event.type = "PushEvent"
         THEN LET created_at == strptime(event.created_at) IN
              IF IsRaise(created_at) THEN created_at
              ELSE MonthlyCountsLoop(Tail(evs),
                       DictAdd(counts, strftimeYm(created_at.val),
                               IF event.commits # 0 THEN event.commits ELSE 1))
         ELSE MonthlyCountsLoop(Tail(evs), counts)

\* a second loop that fills nothing in
BackFillLoop_NoFill(counts, now, i, n) == Returned(counts)

\* the second loop, for i in range(months), from index i on: evaluating timedelta
\* raises NameError when the module binds no such name
RECURSIVE BackFillLoop(_, _, _, _)
BackFillLoop(counts, now, i, n) ==
    IF i >= n THEN Returned(counts)
    ELSE IF "timedelta" \notin ModuleNames THEN Raise("NameError")
    ELSE BackFillLoop(DictSetDefault(counts, MonthOfFirstMinusDays(now, 30 * i), 0), now, i + 1, n)

analyze_monthly_commits(evs, n, now) ==
    LET counts == MonthlyCountsLoop(evs, <<>>) IN
    IF IsRaise(counts) THEN counts
    ELSE LET filled == BackFillLoop(counts.val, now, 0, n) IN
         IF IsRaise(filled) THEN filled ELSE Returned(SortedItems(filled.val))

RECURSIVE Sum(_)
Sum(s) == IF s = <<>> THEN 0 ELSE Head(s) + Sum(Tail(s))

\* round(n / d, 1) for d > 0, as a number of tenths: the nearest, a tie to the even one
RoundTenths(n, d) ==
    LET q == (10 * n) \div d
        r == 10 * n - q * d
    IN  IF 2 * r < d THEN q
        ELSE IF 2 * r > d THEN q + 1
        ELSE IF q % 2 = 0 THEN q ELSE q + 1

\* Python's truth value of None or a number
Truthy(x) == x.kind = "num" /\ x.n # 0

\* the loop of analyze_pr_stats; merge_durations holds seconds (hours = seconds / 3600)
RECURSIVE PrStatsLoop(_, _, _, _)
PrStatsLoop(evs, total_prs, merged_prs, merge_durations) ==
    IF evs = <<>>
    THEN [total_prs |-> total_prs, merged_prs |-> merged_prs, merge_durations |-> merge_durations]
    ELSE LET event == Head(evs) IN
         IF event.type = "PullRequestEvent"
         THEN LET pr == event.pr IN
              IF event.action = "closed" /\ pr.present /\ pr.merged
              THEN LET created == strptime(pr.created_at)
                       closed  == strptime(pr.closed_at)
                   IN  IF IsRaise(created) \/ IsRaise(closed)
                       THEN PrStatsLoop(Tail(evs), total_prs + 1, merged_prs + 1, merge_durations)
                       ELSE PrStatsLoop(Tail(evs), total_prs + 1, merged_prs + 1,
                                Append(merge_durations, TotalSeconds(closed.val, created.val)))
              ELSE PrStatsLoop(Tail(evs), total_prs + 1, merged_prs, merge_durations)
         ELSE PrStatsLoop(Tail(evs), total_prs, merged_prs, merge_durations)

\* a merge rate guarded by the wrong counter
MergeRate_GuardedByMerged(merged_prs, total_prs) ==
    IF merged_prs # 0 THEN Num(merged_prs, total_prs) ELSE Null

MergeRate(merged_prs, total_prs) ==
    IF total_prs # 0 THEN Num(merged_prs, total_prs) ELSE Null

AvgTime(merge_durations) ==
    IF merge_durations # <<>> THEN Num(Sum(merge_durations), 3600 * Len(merge_durations)) ELSE Null

\* round(avg_time, 1) if avg_time else None
AvgTimeRounded(avg_time) ==
    IF Truthy(avg_time) THEN Num(RoundTenths(avg_time.n, avg_time.d), 10) ELSE Null

analyze_pr_stats(evs) ==
    LET l == PrStatsLoop(evs, 0, 0, <<>>) IN
    Returned([total_prs |-> l.total_prs,
              merged_prs |-> l.merged_prs,
              merge_rate |-> MergeRate(l.merged_prs, l.total_prs),
              avg_time_to_merge_hours |-> AvgTimeRounded(AvgTime(l.merge_durations))])

----------------------------------------------------------------------------
(* Repositories, as the API returns them *)

Str(s) == [kind |-> "str", val |-> s]

\* what the contents API answers for the four paths probed in a repository:
\* a status code, or 0 when the request itself raises
Probes(readme, workflows, tests, test) ==
    [readme |-> readme, workflows |-> workflows, tests |-> tests, test |-> test]

Repo(name, stars, forks, language, license, probes) ==
    [name |-> name, stargazers_count |-> stars, forks_count |-> forks,
     language |-> language, license |-> license, probes |-> probes]

\* the kinds of repository of the model; the name is given by the place in the remote's list
RepoKinds == 1..3

RepoOfKind(k, name) ==
    CASE k = 1 -> Repo(name, 0, 0, Null, FALSE, Probes(404, 404, 404, 200))
      [] k = 2 -> Repo(name, 1, 2, Str("Go"), TRUE, Probes(200, 0, 200, 404))
      [] k = 3 -> Repo(name, 2, 1, Str("Python"), FALSE, Probes(0, 200, 0, 200))

\* the repository collections of length at most n
RepoCollections(n) ==
    {[i \in 1..Len(ks) |-> RepoOfKind(ks[i], i)] : ks \in SeqUpTo(RepoKinds, n)}

----------------------------------------------------------------------------
(* Reducers over repositories *)

RECURSIVE LanguagesLoop(_, _)
LanguagesLoop(rs, language_stats) ==
    IF rs = <<>> THEN language_stats
    ELSE LanguagesLoop(Tail(rs),
             IF Head(rs).language # Null /\ Head(rs).language.val # ""
             THEN DictAdd(language_stats, Head(rs).language.val, 1)
             ELSE language_stats)

analyze_languages(rs) == Returned(LanguagesLoop(rs, <<>>))

\* an insertion in front of the elements with as many stars: a sort that is not stable
RECURSIVE InsertByStars_TiesFirst(_, _)
InsertByStars_TiesFirst(s, x) ==
    IF s = <<>> THEN <<x>>
    ELSE IF Head(s).stargazers_count > x.stargazers_count
         THEN <<Head(s)>> \o InsertByStars_TiesFirst(Tail(s), x)
         ELSE <<x>> \o s

\* x put into the list s, sorted by descending stars, behind every element with as many stars
RECURSIVE InsertByStars(_, _)
InsertByStars(s, x) ==
    IF s = <<>> THEN <<x>>
    ELSE IF Head(s).stargazers_count >= x.stargazers_count
         THEN <<Head(s)>> \o InsertByStars(Tail(s), x)
         ELSE <<x>> \o s

RECURSIVE SortLoop(_, _)
SortLoop(rs, acc) ==
    IF rs = <<>> THEN acc ELSE SortLoop(Tail(rs), InsertByStars(acc, Head(rs)))

\* sorted(repos, key=lambda x: x['stargazers_count'], reverse=True): a stable sort
SortedByStars(rs) == SortLoop(rs, <<>>)

\* s[:n]
Take(s, n) == SubSeq(s, 1, Min(n, Len(s)))

TopRepoData(repo) ==
    [name |-> repo.name, stars |-> repo.stargazers_count,
     forks |-> repo.forks_count, language |-> repo.language]

get_repo_stats(rs) ==
    LET top_repos == Take(SortedByStars(rs), TopN) IN
    Returned([total_stars |-> Sum([i \in 1..Len(rs) |-> rs[i].stargazers_count]),
              total_forks |-> Sum([i \in 1..Len(rs) |-> rs[i].forks_count]),
              total_repos |-> Len(rs),
              top_repos   |-> [i \in 1..Len(top_repos) |-> TopRepoData(top_repos[i])]])

\* a request of the log
Request(kind, name, n, status, body) ==
    [kind |-> kind, name |-> name, page |-> n, status |-> status, body |-> body]

\* the probes analyze_repo_health issues for one repository: README.md, .github/workflows,
\* tests, and test when the tests request answered a status other than 200
ProbeRequests(repo) ==
    LET p == repo.probes IN
    << Request("README.md", repo.name, 0, p.readme, <<>>),
       Request(".github/workflows", repo.name, 0, p.workflows, <<>>),
       Request("tests", repo.name, 0, p.tests, <<>>) >>
    \o (IF p.tests \notin {StatusOK, 0} THEN <<Request("test", repo.name, 0, p.test, <<>>)>> ELSE <<>>)

HasTests(p) == p.tests = StatusOK \/ (p.tests # 0 /\ p.test = StatusOK)

analyze_repo_health(rs) ==
    Returned([has_readme |-> Len(SelectSeq(rs, LAMBDA r : r.probes.readme = StatusOK)),
              has_ci |-> Len(SelectSeq(rs, LAMBDA r : r.probes.workflows = StatusOK)),
              has_tests |-> Len(SelectSeq(rs, LAMBDA r : HasTests(r.probes))),
              has_license |-> Len(SelectSeq(rs, LAMBDA r : r.license)),
              total_repos_checked |-> Len(rs)])

----------------------------------------------------------------------------
(* The remote API *)

\* the status codes of the model: success, and two failures (rate limit, not found)
Statuses == {StatusOK, 403, 404}

Profile ==
    [kind |-> "dict", login |-> "octocat", name |-> "The Octocat", bio |-> Null,
     public_repos |-> 2, followers |-> 1, following |-> 0, created_at |-> T_Jan01]

\* the bodies a successful repositories request for page p may carry
RepoPageBodies(p) ==
    { <<>>,
      <<RepoOfKind(2, 10 * p + 1)>>,
      <<RepoOfKind(3, 10 * p + 1), RepoOfKind(1, 10 * p + 2)>> }

\* the bodies a successful events request may carry
EventPageBodies ==
    { <<>>,
      <<Event("PushEvent", T_Jan15, 3, "none", NoPR)>>,
      <<Event("PullRequestEvent", T_Jan02, 0, "closed", PullRequest(TRUE, T_Jan01, T_Jan02)),
        Event("WatchEvent", T_Jan15, 0, "started", NoPR)>>,
      <<Event("PushEvent", Garbled, 1, "none", NoPR)>> }

Response(status, body) == [status |-> status, body |-> body]

Responses(bodies) ==
    {Response(st, <<>>) : st \in Statuses \ {StatusOK}} \cup {Response(StatusOK, b) : b \in bodies}

\* the remote holds finitely many repositories: past page MaxRepoPages a page is empty or fails
RepoResponses(p) ==
    {r \in Responses(RepoPageBodies(p)) : p > MaxRepoPages => (r.status # StatusOK \/ r.body = <<>>)}

----------------------------------------------------------------------------
(* Fetch layer *)

\* a fetch_user_info that does not look at the status
fetch_user_info_IgnoresStatus(status) == Profile

\* fetch_user_info: the parsed body on status 200, None otherwise
fetch_user_info(status) == IF status = StatusOK THEN Profile ELSE Null

\* a fetch_repos loop without the break on an empty page
ReposLoopBreaks_OnFailureOnly(resp) == resp.status # StatusOK

\* fetch_repos: the two breaks of its loop
ReposLoopBreaks(resp) == resp.status # StatusOK \/ resp.body = <<>>

\* a fetch_events loop that breaks on an empty page too
EventsLoopBreaks_AlsoOnEmpty(resp) == resp.status # StatusOK \/ resp.body = <<>>

\* fetch_events: the break of its loop
EventsLoopBreaks(resp) == resp.status # StatusOK

----------------------------------------------------------------------------
(* Composer: generate_analytics after the fetches, with the current time now *)

Document(info, languages, times, activity_types, repo_stats, monthly_commits, pr_stats, repo_health, now) ==
    LET monthly_vals == DictValues(monthly_commits)
        monthly_avg == IF monthly_vals # <<>>
                       THEN Num(RoundTenths(Sum(monthly_vals), Len(monthly_vals)), 10)
                       ELSE Num(0, 1)
        rate == pr_stats.merge_rate
        collaboration == IF Truthy(rate) THEN Num(RoundTenths(100 * rate.n, rate.d), 10)
                         ELSE Num(0, 10)
    IN  [kind |-> "dict",
         user |-> [username |-> info.login, name |-> info.name, bio |-> info.bio,
                   public_repos |-> info.public_repos, followers |-> info.followers,
                   following |-> info.following, created_at |-> info.created_at],
         languages |-> languages,
         commit_hours |-> times.commit_hours,
         commit_days |-> times.commit_days,
         activity_types |-> activity_types,
         repo_stats |-> repo_stats,
         monthly_commits |-> monthly_commits,
         monthly_commits_avg |-> monthly_avg,
         pr_stats |-> pr_stats,
         repo_health |-> repo_health,
         hireability_breakdown |->
             [public_repos |-> info.public_repos, stars |-> repo_stats.total_stars,
              followers |-> info.followers, consistency |-> monthly_avg,
              collaboration |-> collaboration],
         last_updated |-> now]

\* the reducers in the order generate_analytics calls them; the first raise propagates.
\* The result carries the health probes issued on the way.
Analyze(info, rs, evs, now) ==
    LET languages == analyze_languages(rs)
        times == analyze_commit_times(evs)
        activity_types == analyze_activity_types(evs)
        repo_stats == get_repo_stats(rs)
        monthly_commits == analyze_monthly_commits(evs, DefaultMonths, now)
        pr_stats == analyze_pr_stats(evs)
        repo_health == analyze_repo_health(rs)
    IN  IF IsRaise(times) THEN [ret |-> times, probes |-> <<>>]
        ELSE IF IsRaise(monthly_commits) THEN [ret |-> monthly_commits, probes |-> <<>>]
        ELSE [ret |-> Returned(Document(info, languages.val, times.val,
                                        activity_types.val, repo_stats.val,
                                        monthly_commits.val, pr_stats.val,
                                        repo_health.val, now)),
              probes |-> Concat([i \in 1..Len(rs) |-> ProbeRequests(rs[i])])]

----------------------------------------------------------------------------
(* The program: main, generate_analytics, and the fetch methods called directly *)

Idle ==
    /\ pc = "idle"
    /\ entry = "none"
    /\ requests = <<>>
    /\ user_info = Null
    /\ page = 0
    /\ pages = 0
    /\ months = 0
    /\ ret = NotCalled
    /\ saved = <<>>

Init ==
    /\ Idle
    /\ repos = <<>>
    /\ events = <<>>

\* main up to its call of generate_analytics, which starts with fetch_user_info
CallMain ==
    /\ pc = "idle"
    /\ entry' = "main"
    /\ pc' = "fetch_user_info"
    /\ UNCHANGED <<requests, user_info, repos, events, page, pages, months, ret, saved>>

\* fetch_repos called directly
CallFetchRepos ==
    /\ pc = "idle"
    /\ entry' = "fetch_repos"
    /\ pc' = "fetch_repos"
    /\ page' = 1
    /\ repos' = <<>>
    /\ UNCHANGED <<requests, user_info, events, pages, months, ret, saved>>

\* fetch_events(pages=p) called directly; range(1, p + 1) is empty for p = 0
CallFetchEvents ==
    /\ pc = "idle"
    /\ \E p \in 0..MaxPagesArg :
          /\ pages' = p
          /\ pc' = IF p = 0 THEN "done" ELSE "fetch_events"
          /\ ret' = IF p = 0 THEN Returned(<<>>) ELSE ret
    /\ entry' = "fetch_events"
    /\ page' = 1
    /\ events' = <<>>
    /\ UNCHANGED <<requests, user_info, repos, months, saved>>

\* generate_analytics: fetch_user_info, and the return of None when it gave no profile
FetchUserInfo ==
    /\ pc = "fetch_user_info"
    /\ \E status \in Statuses :
          /\ requests' = Append(requests, Request("user", 0, 0, status, <<>>))
          /\ user_info' = fetch_user_info(status)
    /\ IF user_info' = Null
       THEN /\ ret' = Returned(Null)
            /\ pc' = "main_check"
            /\ UNCHANGED <<page, repos>>
       ELSE /\ pc' = "fetch_repos"
            /\ page' = 1
            /\ repos' = <<>>
            /\ UNCHANGED ret
    /\ UNCHANGED <<entry, events, pages, months, saved>>

\* one iteration of the loop of fetch_repos; on a break the method returns, to its
\* caller or into generate_analytics, which goes on to fetch_events(pages=3)
FetchReposPage ==
    /\ pc = "fetch_repos"
    /\ \E resp \in RepoResponses(page) :
          /\ requests' = Append(requests, Request("repos", 0, page, resp.status, resp.body))
          /\ IF ReposLoopBreaks(resp)
             THEN /\ UNCHANGED repos
                  /\ IF entry = "fetch_repos"
                     THEN /\ pc' = "done"
                          /\ ret' = Returned(repos)
                          /\ UNCHANGED <<page, pages, events>>
                     ELSE /\ pc' = "fetch_events"
                          /\ page' = 1
                          /\ pages' = EventPages
                          /\ events' = <<>>
                          /\ UNCHANGED ret
             ELSE /\ repos' = repos \o resp.body
                  /\ page' = page + 1
                  /\ UNCHANGED <<pc, pages, events, ret>>
    /\ UNCHANGED <<entry, user_info, months, saved>>

\* one iteration of the loop of fetch_events; after a break or the last page the
\* method returns, to its caller or into generate_analytics
FetchEventsPage ==
    /\ pc = "fetch_events"
    /\ page <= pages
    /\ \E resp \in Responses(EventPageBodies) :
          /\ requests' = Append(requests, Request("events", 0, page, resp.status, resp.body))
          /\ events' = IF EventsLoopBreaks(resp) THEN events ELSE events \o resp.body
          /\ IF EventsLoopBreaks(resp) \/ page = pages
             THEN /\ UNCHANGED page
                  /\ pc' = IF entry = "fetch_events" THEN "done" ELSE "analyze"
                  /\ ret' = IF entry = "fetch_events" THEN Returned(events') ELSE ret
             ELSE /\ page' = page + 1
                  /\ UNCHANGED <<pc, ret>>
    /\ UNCHANGED <<entry, user_info, repos, pages, months, saved>>

\* generate_analytics from "Analyzing data..." to its return; a raise leaves main too
GenerateAnalytics ==
    /\ pc = "analyze"
    /\ \E now \in Nows :
          LET a == Analyze(user_info, repos, events, now) IN
          /\ ret' = a.ret
          /\ requests' = requests \o a.probes
          /\ pc' = IF IsRaise(a.ret) THEN "crashed" ELSE "main_check"
    /\ months' = DefaultMonths
    /\ UNCHANGED <<entry, user_info, repos, events, page, pages, saved>>

\* main: if data: save_to_file(data), else the failure banner
MainCheck ==
    /\ pc = "main_check"
    /\ saved' = IF ret.val # Null THEN Append(saved, ret.val) ELSE saved
    /\ pc' = "done"
    /\ UNCHANGED <<entry, requests, user_info, repos, events, page, pages, months, ret>>

Next ==
    \/ CallMain
    \/ CallFetchRepos
    \/ CallFetchEvents
    \/ FetchUserInfo
    \/ FetchReposPage
    \/ FetchEventsPage
    \/ GenerateAnalytics
    \/ MainCheck

Spec == Init /\ [][Next]_vars

----------------------------------------------------------------------------
(* The reducers over events, each called directly on an event collection *)

\* the months arguments of the model: none, one, the default
MonthsArgs == {0, 1, DefaultMonths}

InitEvents ==
    /\ Idle
    /\ repos = <<>>
    /\ events \in SeqUpTo(EventUniverse, MaxEvents)

CallAnalyzeCommitTimes ==
    /\ pc = "idle"
    /\ entry' = "analyze_commit_times"
    /\ ret' = analyze_commit_times(events)
    /\ pc' = "done"
    /\ UNCHANGED <<requests, user_info, repos, events, page, pages, months, saved>>

CallAnalyzeActivityTypes ==
    /\ pc = "idle"
    /\ entry' = "analyze_activity_types"
    /\ ret' = analyze_activity_types(events)
    /\ pc' = "done"
    /\ UNCHANGED <<requests, user_info, repos, events, page, pages, months, saved>>

CallAnalyzeMonthlyCommits ==
    /\ pc = "idle"
    /\ entry' = "analyze_monthly_commits"
    /\ \E n \in MonthsArgs, now \in Nows :
          /\ months' = n
          /\ ret' = analyze_monthly_commits(events, n, now)
    /\ pc' = "done"
    /\ UNCHANGED <<requests, user_info, repos, events, page, pages, saved>>

CallAnalyzePrStats ==
    /\ pc = "idle"
    /\ entry' = "analyze_pr_stats"
    /\ ret' = analyze_pr_stats(events)
    /\ pc' = "done"
    /\ UNCHANGED <<requests, user_info, repos, events, page, pages, months, saved>>

NextEvents ==
    \/ CallAnalyzeCommitTimes
    \/ CallAnalyzeActivityTypes
    \/ CallAnalyzeMonthlyCommits
    \/ CallAnalyzePrStats

SpecEvents == InitEvents /\ [][NextEvents]_vars

----------------------------------------------------------------------------
(* The reducers over repositories, each called directly on a repository collection *)

InitRepos ==
    /\ Idle
    /\ events = <<>>
    /\ repos \in RepoCollections(MaxRepos)

CallAnalyzeLanguages ==
    /\ pc = "idle"
    /\ entry' = "analyze_languages"
    /\ ret' = analyze_languages(repos)
    /\ pc' = "done"
    /\ UNCHANGED <<requests, user_info, repos, events, page, pages, months, saved>>

CallGetRepoStats ==
    /\ pc = "idle"
    /\ entry' = "get_repo_stats"
    /\ ret' = get_repo_stats(repos)
    /\ pc' = "done"
    /\ UNCHANGED <<requests, user_info, repos, events, page, pages, months, saved>>

CallAnalyzeRepoHealth ==
    /\ pc = "idle"
    /\ entry' = "analyze_repo_health"
    /\ ret' = analyze_repo_health(repos)
    /\ requests' = Concat([i \in 1..Len(repos) |-> ProbeRequests(repos[i])])
    /\ pc' = "done"
    /\ UNCHANGED <<user_info, repos, events, page, pages, months, saved>>

NextRepos ==
    \/ CallAnalyzeLanguages
    \/ CallGetRepoStats
    \/ CallAnalyzeRepoHealth

SpecRepos == InitRepos /\ [][NextRepos]_vars

----------------------------------------------------------------------------
(* Properties *)

\* the requests of one kind, in the order issued
ReqsOf(kind) == SelectSeq(requests, LAMBDA r : r.kind = kind)

Bodies(rq, n) == Concat([i \in 1..n |-> rq[i].body])

Failed(r) == r.status # StatusOK

FailedOrEmpty(r) == r.status # StatusOK \/ r.body = <<>>

ProfileRequestFailed == \E i \in 1..Len(requests) : requests[i].kind = "user" /\ Failed(requests[i])

ProfileRequestSucceeded == \E i \in 1..Len(requests) : requests[i].kind = "user" /\ ~Failed(requests[i])

\* C1: when the profile request returns a non-success status, generate_analytics
\* returns None, the profile request stays the only request ever issued (no
\* repository, event or health-probe request follows), and nothing is written to the sink.
C1_ProfileFailureAborts ==
    (entry = "main" /\ ProfileRequestFailed) =>
        /\ Len(requests) = 1
        /\ ret = Returned(Null)
        /\ pc \in {"main_check", "done"}
        /\ saved = <<>>

C1_Witness == entry = "main" /\ pc = "done" /\ ProfileRequestFailed

\* C2: when the profile request succeeds, the run is not aborted whatever the
\* repository and event pages answer: generate_analytics returns a document and
\* main hands it to save_to_file.
C2_ProfileSuccessYieldsDocument ==
    (entry = "main" /\ ProfileRequestSucceeded) =>
        /\ pc # "crashed"
        /\ pc = "done" => (ret.kind = "value" /\ ret.val # Null /\ saved = <<ret.val>>)

FetchReposReturned ==
    /\ entry \in {"main", "fetch_repos"}
    /\ pc \notin {"idle", "fetch_user_info", "fetch_repos"}
    /\ ReqsOf("repos") # <<>>

\* C3: fetch_repos requests pages 1, 2, 3, ... in increasing order, each once;
\* while it loops every page so far succeeded with a non-empty body; it returns at
\* the first page k that fails or is empty, no request follows page k, and the
\* result is the concatenation of pages 1..k-1.
C3_FetchReposPagination ==
    LET R == ReqsOf("repos")
        k == Len(R)
    IN  /\ \A i \in 1..k : R[i].page = i
        /\ pc = "fetch_repos" =>
              /\ \A i \in 1..k : ~FailedOrEmpty(R[i])
              /\ page = k + 1
              /\ repos = Bodies(R, k)
        /\ FetchReposReturned =>
              /\ FailedOrEmpty(R[k])
              /\ \A i \in 1..(k - 1) : ~FailedOrEmpty(R[i])
              /\ repos = Bodies(R, k - 1)
              /\ entry = "fetch_repos" => ret = Returned(repos)

C3_Witness ==
    LET R == ReqsOf("repos") IN
    /\ entry = "fetch_repos"
    /\ pc = "done"
    /\ Len(R) = 3
    /\ R[3].status = StatusOK
    /\ Len(repos) = 3

FetchEventsReturned ==
    /\ entry \in {"main", "fetch_events"}
    /\ pc \in {"analyze", "crashed", "main_check", "done"}
    /\ ~ProfileRequestFailed

\* C4, as stated: fetch_events(maxPages) requests pages from 1 in increasing order,
\* never more than maxPages; while it loops no page so far failed or was empty; it
\* returns at the first page that fails or is empty (or after page maxPages), no
\* request follows the stopping page, and the result is the concatenation of the
\* pages before it.
C4_FetchEventsStopsOnFailedOrEmpty ==
    LET E == ReqsOf("events")
        k == Len(E)
    IN  /\ \A i \in 1..k : E[i].page = i
        /\ k <= pages
        /\ pc = "fetch_events" => \A i \in 1..k : ~FailedOrEmpty(E[i])
        /\ FetchEventsReturned =>
              /\ \A i \in 1..(k - 1) : ~FailedOrEmpty(E[i])
              /\ k < pages => FailedOrEmpty(E[k])
              /\ events = Bodies(E, IF k > 0 /\ FailedOrEmpty(E[k]) THEN k - 1 ELSE k)
              /\ entry = "fetch_events" => ret = Returned(events)

\* C4, amended: fetch_events(maxPages) requests pages from 1 in increasing order,
\* never more than maxPages; while it loops no page so far failed; it returns at the
\* first page that fails (an empty page does not stop it) or after page maxPages, no
\* request follows the failed page, and the result is the concatenation of the
\* pages before it.
C4_FetchEventsStopsOnFailed ==
    LET E == ReqsOf("events")
        k == Len(E)
    IN  /\ \A i \in 1..k : E[i].page = i
        /\ k <= pages
        /\ pc = "fetch_events" => (page = k + 1 /\ \A i \in 1..k : ~Failed(E[i]))
        /\ FetchEventsReturned =>
              /\ \A i \in 1..(k - 1) : ~Failed(E[i])
              /\ k < pages => Failed(E[k])
              /\ events = Bodies(E, IF k > 0 /\ Failed(E[k]) THEN k - 1 ELSE k)
              /\ entry = "fetch_events" => ret = Returned(events)

C4_Witness ==
    LET E == ReqsOf("events") IN
    /\ entry = "fetch_events"
    /\ pc = "done"
    /\ pages = 4
    /\ Len(E) = 3
    /\ E[1].status = StatusOK /\ E[1].body = <<>>
    /\ E[2].status = StatusOK /\ E[2].body # <<>>
    /\ Failed(E[3])


Called(method) == entry = method /\ pc = "done"

\* C5: analyze_monthly_commits(events, months=N) returns a mapping with exactly N
\* keys, each a valid year-month key, every value >= 0, for every event
\* collection and every current date.
C5_MonthlyHasExactlyNKeys ==
    Called("analyze_monthly_commits") =>
        /\ ret.kind = "value"
        /\ Len(ret.val) = months
        /\ Cardinality(DictKeys(ret.val)) = months
        /\ \A i \in 1..Len(ret.val) : ValidYearMonthKey(ret.val[i][1]) /\ ret.val[i][2] >= 0

MalformedPush(e) == e.type = "PushEvent" /\ ~Parses(e.created_at)

\* C6: a push event with a malformed created_at is not fatal: analyze_commit_times
\* and analyze_monthly_commits skip it and give what they give for the remaining
\* events, and analyze_activity_types still counts it.
C6_MalformedPushIsSkipped ==
    LET rest == SelectSeq(events, LAMBDA e : ~MalformedPush(e)) IN
    (pc = "done" /\ rest # events) =>
        /\ entry = "analyze_commit_times" =>
              ret.kind = "value" /\ ret = analyze_commit_times(rest)
        /\ entry = "analyze_monthly_commits" =>
              \E now \in Nows : ret = analyze_monthly_commits(rest, months, now)
        /\ entry = "analyze_activity_types" =>
              ret.kind = "value" /\ Sum(DictValues(ret.val)) = Len(events)

IsPullRequestEvent(e) == e.type = "PullRequestEvent"

IsMergedPR(e) == IsPullRequestEvent(e) /\ e.action = "closed" /\ e.pr.present /\ e.pr.merged

\* C7: analyze_pr_stats returns merge_rate = null if and only if total_prs = 0;
\* otherwise merge_rate = merged_prs / total_prs with 0 <= merge_rate <= 1, where
\* total_prs counts the pull-request events and merged_prs the merged ones.
C7_MergeRate ==
    Called("analyze_pr_stats") =>
        /\ ret.kind = "value"
        /\ LET st == ret.val IN
           /\ st.total_prs = Len(SelectSeq(events, IsPullRequestEvent))
           /\ st.merged_prs = Len(SelectSeq(events, IsMergedPR))
           /\ st.merge_rate = Null <=> st.total_prs = 0
           /\ st.merge_rate # Null =>
                 /\ st.merge_rate = Num(st.merged_prs, st.total_prs)
                 /\ 0 <= st.merge_rate.n
                 /\ st.merge_rate.n <= st.merge_rate.d

C7_Witness ==
    /\ Called("analyze_pr_stats")
    /\ ret.val.total_prs = 3
    /\ ret.val.merged_prs = 1

HasValidDuration(e) == IsMergedPR(e) /\ Parses(e.pr.created_at) /\ Parses(e.pr.closed_at)

DurationSeconds(e) == TotalSeconds(strptime(e.pr.closed_at).val, strptime(e.pr.created_at).val)

\* C8: analyze_pr_stats returns avg_time_to_merge_hours = null exactly when no
\* merged pull request has a valid created/closed pair; with at least one valid
\* duration (a duration of zero included) it is their mean rounded to one decimal.
C8_AvgTimeNullIffNoValidDuration ==
    Called("analyze_pr_stats") =>
        LET valid == SelectSeq(events, HasValidDuration)
            secs == [i \in 1..Len(valid) |-> DurationSeconds(valid[i])]
            avg == ret.val.avg_time_to_merge_hours
        IN  /\ avg = Null <=> valid = <<>>
            /\ valid # <<>> => avg = Num(RoundTenths(Sum(secs), 3600 * Len(valid)), 10)

EmptyTimes == Returned([commit_hours |-> <<>>, commit_days |-> <<>>])

C10_TopRepos ==
    Called("get_repo_stats") =>
        /\ ret.kind = "value"
        /\ LET top == ret.val.top_repos
               n == Len(top)
               chosen == {top[i].name : i \in 1..n}
           IN  /\ ret.val.total_repos = Len(repos)
               /\ n = Min(TopN, Len(repos))
               /\ \A i \in 1..n : /\ top[i].name \in 1..Len(repos)
                                  /\ top[i] = TopRepoData(repos[top[i].name])
               /\ \A i, j \in 1..n :
                     i < j => \/ top[i].stars > top[j].stars
                              \/ top[i].stars = top[j].stars /\ top[i].name < top[j].name
               /\ \A q \in (1..Len(repos)) \ chosen :
                     \A i \in 1..n : repos[q].stargazers_count <= top[i].stars

C10_Witness ==
    /\ Called("get_repo_stats")
    /\ Len(repos) = 6
    /\ LET top == ret.val.top_repos IN
       /\ top[1].stars = 2 /\ top[1].name = 3
       /\ top[2].stars = 2 /\ top[2].name = 6
       /\ top[5].stars = 1 /\ top[5].name = 4
       /\ repos[5].stargazers_count = 1

====
